---- MODULE Spec2Model ----
(***************************************************************************)
(* Inventory quantity editor (route component Inventario and its loader    *)
(* and action, src/app/routes/catalogo.tsx lines 16-457).                  *)
(*                                                                         *)
(* The client keeps three maps: products (the loader data, the baseline),  *)
(* inputValues (what the number inputs display) and pendingChanges (the    *)
(* ledger of uncommitted edits).  One Remix fetcher carries the batch      *)
(* write; the server action applies the pairs one upsert at a time.        *)
(* Every client action below is one event handler or one delivery of       *)
(* router state, together with the React effects that its render runs.     *)
(* The table is written by this page's own requests only.                  *)
(*                                                                         *)
(* Further parts, each with a specification of its own: the search and     *)
(* colour filters with their debounce and URL synchronisation; the route   *)
(* loaders and actions as request handlers (session guard, inventory       *)
(* loader and action, login action); the image edit modal                  *)
(* (src/app/components/ImageEditModal.tsx).                                *)
(***************************************************************************)
EXTENDS Integers, Sequences, FiniteSets, TLC

\* ---------------------------------------------------------------- bounds
NumProducts == 2
MaxQty == 1
MaxRequests == 2
NegInputs == 1

Products == 1..NumProducts
\* the quantities of this model: what the table holds and what is typed
Quantities == 0..MaxQty

\* what a quantity input can deliver: parseInt(e.target.value) || 0, any
\* integer (min="0" does not stop a typed negative number)
InputValues == (0 - NegInputs)..MaxQty

\* ----------------------------------------------------------------- state
VARIABLES
  inventario,       \* server table inventario: product_id -> cantidad (partial)
  products,         \* useLoaderData().products: id -> cantidad (the baseline)
  inputValues,      \* useState inputValues: id -> displayed quantity
  pendingChanges,   \* useState pendingChanges: id -> proposed quantity (partial)
  fetcherState,     \* fetcher.state: "idle" | "submitting" | "loading"
  fetcherData,      \* fetcher.data: "undefined" | "success" | "error"
  prevIsSubmitting, \* prevIsSubmitting.current
  requests,         \* write requests in flight; each the list of pairs not yet applied
  upsertFailed,     \* some upsert of the request being served returned an error
  load,             \* loader run in flight: "none" | "requested" | "responded"
  loaderResp,       \* the products list the loader run in flight has produced
  preCommit,        \* pendingChanges and inputValues at the last handleSaveAll
  committed,        \* history kept by SpecTracked only: the ids of the batch
                    \* confirmed, until its refetch lands
  lastEvent,        \* the last operation: <<name, product id or 0>>; for the
                    \* filter steps <<name, 1 if the synchronizer navigated>>
  searchValue,      \* useState searchValue (the search input)
  colorValue,       \* useState colorValue (the color select)
  debouncedSearch,  \* useDebounce(searchValue, 300)
  debouncedColor,   \* useDebounce(colorValue, 300)
  searchTimers,     \* timeouts pending in useDebounce(searchValue): [val, left]
  colorTimers,      \* timeouts pending in useDebounce(colorValue): [val, left]
  searchParams,     \* useSearchParams(): the query parameters of the location
  navPending,       \* navigation in flight: [active, target]
  stableSearch,     \* ms since searchValue last changed, up to DebounceDelay
  stableColor,      \* ms since colorValue last changed, up to DebounceDelay
  navSinceInput,    \* the synchronizer has navigated since the last user input
  excursion,        \* "away": search typed away from the URL's value out of a
                    \* settled page; "back": and typed back before the timer fired
  preClear,         \* the filter inputs at the last clear, until the next input
  request,          \* the HTTP request a loader or action is called with
  response,         \* what the loader or action returned or threw
  effects,          \* the calls it made to the database and the identity
                    \* provider, in order
  modal             \* ImageEditModal, a record of
                    \*   isOpen: prop isOpen
                    \*   loading: prop loading
                    \*   selectedFile: useState, <<>> (null) or <<MIME type>>
                    \*   previewUrl: useState, <<>> (null) or <<MIME type>> of
                    \*     the file the object URL was made for
                    \*   error: useState, "null" or the message
                    \*   wasLoading: useState
                    \*   onSaveCalls: the files onSave has been called with

inventoryVars ==
  <<inventario, products, inputValues, pendingChanges, fetcherState,
    fetcherData, prevIsSubmitting, requests, upsertFailed, load,
    loaderResp, preCommit, committed>>

filterVars ==
  <<searchValue, colorValue, debouncedSearch, debouncedColor, searchTimers,
    colorTimers, searchParams, navPending, stableSearch, stableColor,
    navSinceInput, excursion, preClear>>

serverVars == <<request, response, effects>>

modalVars == <<modal>>

vars == <<inventoryVars, lastEvent, filterVars, serverVars, modalVars>>

\* ------------------------------------------------------------- helpers
EmptyMap == [x \in {} |-> 0]

NoSnapshot == [pending |-> EmptyMap, displayed |-> EmptyMap]

\* delete updated[productId]
MapDelete(m, k) == [x \in (DOMAIN m) \ {k} |-> m[x]]

\* updated[productId] = newValue
MapSet(m, k, v) == [x \in (DOMAIN m) \cup {k} |-> IF x = k THEN v ELSE m[x]]

Min(S) == CHOOSE x \in S : \A y \in S : x <= y

\* Object.entries / Object.keys order of an object with integer keys: ascending
RECURSIVE ObjectKeys(_)
ObjectKeys(S) ==
  IF S = {} THEN <<>>
  ELSE LET m == Min(S) IN <<m>> \o ObjectKeys(S \ {m})

\* a cantidad that is not an integer: NaN out of parseInt, which reaches the
\* table as NULL
NotInteger == 0 - (NegInputs + 1)

\* variant: the join made from the inventario side, a row for every record
TransformedProductsAllRecords(rows, inv) ==
  [p \in rows \cup DOMAIN inv |->
     IF p \in DOMAIN inv /\ inv[p] # 0 /\ inv[p] # NotInteger
       THEN inv[p] ELSE 0]

\* loader: transformedProducts, one row per product row the query returned,
\* cantidad: inventarioMap.get(product.id) || 0
TransformedProducts(rows, inv) ==
  [p \in rows |->
     IF p \in DOMAIN inv /\ inv[p] # 0 /\ inv[p] # NotInteger
       THEN inv[p] ELSE 0]

\* the loader's products for the un-filtered page
LoaderResult(inv) == TransformedProducts(Products, inv)

hasPendingChanges == DOMAIN pendingChanges # {}

isSubmitting == fetcherState = "submitting"

\* the seeding and the success effect both build initialValues from products
InitialValues(prods) == [p \in Products |-> prods[p]]

\* ------------------------------------------------------- client helpers
\* variant: the revert test compares with 0 instead of the loader's quantity
NextPendingCompareZero(prev, productId, newValue, original) ==
  IF newValue # 0
    THEN MapSet(prev, productId, newValue)
    ELSE MapDelete(prev, productId)

\* variant: the entry is always stored, as handleQuickEdit does
NextPendingAlwaysSet(prev, productId, newValue, original) ==
  MapSet(prev, productId, newValue)

\* handleInputChange, the updater passed to setPendingChanges
NextPending(prev, productId, newValue, original) ==
  IF newValue # original
    THEN MapSet(prev, productId, newValue)
    ELSE MapDelete(prev, productId)

\* handleSaveAll: Object.entries(pendingChanges).map(...) -> changesArr
Serialize(pending) ==
  LET keys == ObjectKeys(DOMAIN pending) IN
    [i \in 1..Len(keys) |-> [productId |-> keys[i], cantidad |-> pending[keys[i]]]]

\* variant: one fetcher.submit per entry, as the earlier handleSaveAll did
SubmittedRequestsPerEntry(pending) ==
  [i \in 1..Len(Serialize(pending)) |-> <<Serialize(pending)[i]>>]

\* handleSaveAll: the fetcher.submit calls it makes, one request each
SubmittedRequests(pending) == <<Serialize(pending)>>

\* floating panel: {hasPendingChanges && (...)} renders Guardar and Cancelar
SavePanelVisible == hasPendingChanges

\* variant: the button is never disabled
SaveDisabledNever == FALSE

\* disabled={isSubmitting} on the Guardar Cambios button
SaveDisabled == isSubmitting

\* disabled={isSubmitting} on the Cancelar button
CancelDisabled == isSubmitting

\* variant: the quantity inputs are never disabled
InputDisabledNever == FALSE

\* disabled={isSubmitting} on the quantity inputs
InputDisabled == isSubmitting

\* variant: the seeding effect runs whatever is pending
SeedGuardAlways(pending) == TRUE

\* variant: the guard is inverted
SeedGuardInverted(pending) == DOMAIN pending # {}

\* seeding effect, its guard: Object.keys(pendingChanges).length === 0
SeedGuard(pending) == DOMAIN pending = {}

\* commit-success effect, its condition
SuccessEffectFires(prev, submittingNow, data) ==
  prev /\ ~submittingNow /\ data = "success"

\* revalidate-on-success effect, its condition ('success' in fetcher.data)
RevalidateEffectFires(state, data) ==
  state = "idle" /\ data = "success"

\* ------------------------------------------------------- server helpers
\* action: what it answers once the loop is over
ActionResult(failed) == "success"

\* variant: insert-if-absent, an existing record is left as it is
UpsertInsertOnly(inv, change) ==
  IF change.productId \in DOMAIN inv
    THEN inv
    ELSE MapSet(inv, change.productId, change.cantidad)

\* supabase.from('inventario').upsert({product_id, cantidad, updated_at})
Upsert(inv, change) == MapSet(inv, change.productId, change.cantidad)

\* ------------------------------------------------------- filter helpers
\* useDebounce(searchValue, 300), useDebounce(colorValue, 300)
DebounceDelay == 300

\* the step of the clock, in ms
TickMs == 100

\* texts of the search input and options of the color select ("" = empty)
SearchTexts == {"", "a", "b"}
ColorTexts == {"", "azul"}

\* URLSearchParams over the two parameters the page reads; a parameter can be
\* present with an empty value (?search=)
ParamStates ==
  UNION {{f \in [S -> SearchTexts \cup ColorTexts] :
            /\ ("search" \in S => f["search"] \in SearchTexts)
            /\ ("color" \in S => f["color"] \in ColorTexts)} :
         S \in SUBSET {"search", "color"}}

\* navigate('/inventario'): the un-parameterized route
EmptyParams == [x \in {} |-> ""]

NoNavigation == [active |-> FALSE, target |-> EmptyParams]

NoClear == [active |-> FALSE, search |-> "", color |-> ""]

\* searchParams.get(name) || ''
GetParam(params, name) == IF name \in DOMAIN params THEN params[name] ELSE ""

\* variant: an empty field is encoded as an empty parameter
CandidateParamsKeepEmpty(params, search, color) ==
  MapSet(MapSet(params, "search", search), "color", color)

\* filter-to-URL effect: newSearchParams (set a non-empty field, delete an
\* empty one)
CandidateParams(params, search, color) ==
  LET withSearch == IF search # ""
                      THEN MapSet(params, "search", search)
                      ELSE MapDelete(params, "search")
  IN IF color # ""
       THEN MapSet(withSearch, "color", color)
       ELSE MapDelete(withSearch, "color")

\* variant: the effect navigates whenever it runs
ShouldNavigateAlways(params, search, color) == TRUE

\* filter-to-URL effect, its test before navigate
ShouldNavigate(params, search, color) ==
  \/ search # GetParam(params, "search")
  \/ color # GetParam(params, "color")

\* filter-to-URL effect: the navigation in flight after the effect has run
SyncEffect(params, search, color, nav) ==
  IF ShouldNavigate(params, search, color)
    THEN [active |-> TRUE, target |-> CandidateParams(params, search, color)]
    ELSE nav

\* variant: setTimeout without the delay
TimerForNoDelay(value) == [val |-> value, left |-> 0]

\* useDebounce effect: setTimeout(() => setDebouncedValue(value), delay)
TimerFor(value) == [val |-> value, left |-> DebounceDelay]

\* variant: the effect returns no cleanup
CleanupMissing(timers) == timers

\* useDebounce effect cleanup: clearTimeout(handler)
Cleanup(timers) == {}

\* the clock advances: every pending timeout is TickMs closer
Elapse(timers) == {[val |-> t.val, left |-> t.left - TickMs] : t \in timers}

Expired(timers) == {t \in timers : t.left <= 0}

Stable(ms) == IF ms + TickMs >= DebounceDelay THEN DebounceDelay ELSE ms + TickMs

\* the page shows the URL's filters, nothing is in flight
Settled ==
  /\ searchValue = debouncedSearch
  /\ searchValue = GetParam(searchParams, "search")
  /\ colorValue = debouncedColor
  /\ colorValue = GetParam(searchParams, "color")
  /\ ~navPending.active

\* The filters as mounted on the location params: the inputs and their
\* debounced values start from currentFilters, each useDebounce has scheduled
\* its first timeout, the filter-to-URL effect has run once.
FilterMounted(params) ==
  /\ searchParams = params
  /\ searchValue = GetParam(params, "search")
  /\ colorValue = GetParam(params, "color")
  /\ debouncedSearch = searchValue
  /\ debouncedColor = colorValue
  /\ searchTimers = {TimerFor(searchValue)}
  /\ colorTimers = {TimerFor(colorValue)}
  /\ navPending = SyncEffect(params, debouncedSearch, debouncedColor, NoNavigation)
  /\ stableSearch = 0
  /\ stableColor = 0
  /\ navSinceInput = navPending.active
  /\ excursion = "none"
  /\ preClear = NoClear

\* ------------------------------------------------------ request helpers
\* the product_id of an inventario record that has no product
OrphanId == NumProducts + 1

ProductIds == Products \cup {OrphanId}

\* what a request can carry as cantidad
Cantidades == Quantities \cup {NotInteger}

\* a form field that may be missing: <<>> is formData.get(...) === null
Optional(S) == {<<>>} \cup {<<x>> : x \in S}

Pairs == [productId : ProductIds, cantidad : Cantidades]

\* the arrays the changes field can hold: no pair, one pair, two pairs
ChangeLists ==
  {<<>>} \cup {<<a>> : a \in Pairs} \cup {<<a, b>> : a \in Pairs, b \in Pairs}

\* a text field of the login form: not sent, sent empty, sent with text
FieldTexts == {"absent", "empty", "text"}

NoRequest ==
  [route |-> "none", userId |-> FALSE, userData |-> FALSE, rows |-> {},
   changesRaw |-> "absent", changes |-> <<>>, productId |-> <<>>,
   cantidad |-> <<>>, email |-> "absent", password |-> "absent"]

\* the session of the request's cookie: it holds a userId, it holds userData
WithSession(req) ==
  {[req EXCEPT !.userId = u, !.userData = d] : u \in BOOLEAN, d \in BOOLEAN}

\* GET /inventario: rows are the products the filtered query returns
InventarioLoaderRequests ==
  UNION {WithSession([NoRequest EXCEPT !.route = "inventario.loader", !.rows = r]) :
           r \in SUBSET Products}

\* POST /inventario: the changes field is missing, is not JSON, or is an
\* array of pairs; the legacy fields matter when it is not JSON
InventarioActionRequests ==
  UNION ({WithSession([NoRequest EXCEPT !.route = "inventario.action",
                                        !.changesRaw = "json", !.changes = c]) :
            c \in ChangeLists}
         \cup
         {WithSession([NoRequest EXCEPT !.route = "inventario.action",
                                        !.changesRaw = raw, !.productId = i,
                                        !.cantidad = q]) :
            raw \in {"absent", "malformed"}, i \in Optional(ProductIds),
            q \in Optional(Cantidades)})

PageRoutes == {"dashboard.loader", "productos.loader", "catalogo.loader"}

PageLoaderRequests ==
  UNION {WithSession([NoRequest EXCEPT !.route = r]) : r \in PageRoutes}

\* POST /login
LoginRequests ==
  {[NoRequest EXCEPT !.route = "login.action", !.email = e, !.password = pw] :
     e \in FieldTexts, pw \in FieldTexts}

Requests ==
  InventarioLoaderRequests \cup InventarioActionRequests
    \cup PageLoaderRequests \cup LoginRequests

\* the inventario table as a request can find it
ServerTables == UNION {[S -> Cantidades] : S \in SUBSET ProductIds}

NoResponse ==
  [kind |-> "none", status |-> 0, location |-> "", setCookie |-> FALSE,
   body |-> "", products |-> EmptyMap]

\* redirect(url), with or without a Set-Cookie header
Redirect(url, cookie) ==
  [NoResponse EXCEPT !.kind = "redirect", !.status = 302, !.location = url,
                     !.setCookie = cookie]

\* json(data, {status}); body names the shape of data
Json(status, body, prods) ==
  [NoResponse EXCEPT !.kind = "json", !.status = status, !.body = body,
                     !.products = prods]

\* an exception that leaves the handler: the framework answers 500
Thrown == [NoResponse EXCEPT !.kind = "thrown", !.status = 500, !.body = "error"]

\* variant: a session with a userId is enough
GetUserIdOnly(req) == req.userId

\* getUser: null unless the session holds userId and userData
GetUser(req) == ~(~req.userId \/ ~req.userData)

\* the reads of the loaders that do no more than read
PageReads(route) ==
  CASE route = "dashboard.loader" -> <<"select products", "select inventario">>
    [] route = "productos.loader" -> <<"select products", "select products">>
    [] route = "catalogo.loader" -> <<>>

\* action: changes as the for loop finds it.  JSON.parse(null) returns null,
\* which for...of cannot iterate; the catch branch runs only when the text is
\* not JSON.
ParseChanges(req) ==
  CASE req.changesRaw = "absent" -> [throws |-> TRUE, changes |-> <<>>]
    [] req.changesRaw = "malformed" ->
         [throws |-> FALSE,
          changes |-> IF req.productId # <<>> /\ req.cantidad # <<>>
                        THEN <<[productId |-> req.productId[1],
                                cantidad |-> req.cantidad[1]]>>
                        ELSE <<>>]
    [] req.changesRaw = "json" -> [throws |-> FALSE, changes |-> req.changes]

\* action, its for loop from pair k on: oks[k] tells whether the k-th upsert
\* was applied
RECURSIVE ApplyFrom(_, _, _, _)
ApplyFrom(inv, changes, oks, k) ==
  IF k > Len(changes) THEN inv
  ELSE ApplyFrom(IF oks[k] THEN Upsert(inv, changes[k]) ELSE inv,
                 changes, oks, k + 1)

\* variant: only the email is required
MissingCredentialsEmailOnly(req) == req.email \in {"absent", "empty"}

\* login action: !email || !password
MissingCredentials(req) ==
  req.email \in {"absent", "empty"} \/ req.password \in {"absent", "empty"}

ServerIdle ==
  /\ request = NoRequest
  /\ response = NoResponse
  /\ effects = <<>>

\* ------------------------------------------------------- modal helpers
\* file.type of the files the picker can deliver, as the pieces of the text
\* (accept="image/*" is a hint to the picker, not a filter)
MimeTypes ==
  {<<"image", "/", "png">>, <<"image", "/", "jpeg">>, <<"image", "/", "svg+xml">>,
   <<"text", "/", "plain">>, <<"image">>, <<"imagex", "/", "png">>, <<>>}

\* String.prototype.startsWith
StartsWith(text, prefix) ==
  /\ Len(text) >= Len(prefix)
  /\ SubSeq(text, 1, Len(prefix)) = prefix

\* variant: the test without the slash
IsImageLoose(type) == StartsWith(type, <<"image">>)

\* handleFileChange: file.type.startsWith("image/")
IsImage(type) == StartsWith(type, <<"image", "/">>)

\* reset-on-close effect: runs when isOpen has become false
ResetOnClose(m) ==
  IF ~m.isOpen
    THEN [m EXCEPT !.selectedFile = <<>>, !.previewUrl = <<>>, !.error = "null"]
    ELSE m

ModalClosed ==
  modal = [isOpen |-> FALSE, loading |-> FALSE, selectedFile |-> <<>>,
           previewUrl |-> <<>>, error |-> "null", wasLoading |-> FALSE,
           onSaveCalls |-> {}]

\* ------------------------------------------------------------------ Init
\* The page as mounted: the loader has run, the seeding effect has copied
\* the loader's quantities into inputValues, nothing is pending.
InventoryMounted(table) ==
  /\ inventario = table
  /\ products = LoaderResult(inventario)
  /\ inputValues = InitialValues(products)
  /\ pendingChanges = EmptyMap
  /\ fetcherState = "idle"
  /\ fetcherData = "undefined"
  /\ prevIsSubmitting = FALSE
  /\ requests = <<>>
  /\ upsertFailed = FALSE
  /\ load = "none"
  /\ loaderResp = products
  /\ preCommit = NoSnapshot
  /\ committed = {}
  /\ lastEvent = <<"mount", 0>>

InventoryInit ==
  \E table \in UNION {[S -> Quantities] : S \in SUBSET Products} :
    InventoryMounted(table)

\* the inventory page opened on the un-parameterized route; the filters are
\* left alone in Spec
Init ==
  /\ InventoryInit
  /\ FilterMounted(EmptyParams)
  /\ ServerIdle
  /\ ModalClosed

\* --------------------------------------------------------- client actions
\* onChange of a quantity input -> handleInputChange(productId, newValue)
SetValue(productId, newValue) ==
  /\ ~InputDisabled
  /\ inputValues' = [inputValues EXCEPT ![productId] = newValue]
  /\ pendingChanges' =
       NextPending(pendingChanges, productId, newValue, products[productId])
  /\ lastEvent' = <<"setValue", productId>>
  /\ UNCHANGED <<filterVars, serverVars, modalVars>>
  /\ UNCHANGED <<inventario, products, fetcherState, fetcherData,
                 prevIsSubmitting, requests, upsertFailed, load, loaderResp,
                 preCommit, committed>>

\* Cancelar button: onClick={() => setPendingChanges({})}
Cancelar ==
  /\ hasPendingChanges
  /\ ~CancelDisabled
  /\ pendingChanges' = EmptyMap
  /\ lastEvent' = <<"cancelar", 0>>
  /\ UNCHANGED <<filterVars, serverVars, modalVars>>
  /\ UNCHANGED <<inventario, products, inputValues, fetcherState, fetcherData,
                 prevIsSubmitting, requests, upsertFailed, load, loaderResp,
                 preCommit, committed>>

\* Guardar Cambios button -> handleSaveAll.  fetcher.submit moves the fetcher
\* to "submitting" (its data is kept) and aborts the revalidation that an
\* earlier submission of the same fetcher still had in flight; the render
\* runs the commit-success effect, which only records prevIsSubmitting.
HandleSaveAll ==
  /\ hasPendingChanges
  /\ ~SaveDisabled
  /\ Len(requests) < MaxRequests
  /\ requests' = requests \o SubmittedRequests(pendingChanges)
  /\ fetcherState' = "submitting"
  /\ prevIsSubmitting' = TRUE
  /\ upsertFailed' = FALSE
  /\ load' = IF fetcherState = "loading" THEN "none" ELSE load
  /\ loaderResp' = IF fetcherState = "loading" THEN products ELSE loaderResp
  /\ preCommit' = [pending |-> pendingChanges, displayed |-> inputValues]
  /\ committed' = {}
  /\ lastEvent' = <<"handleSaveAll", 0>>
  /\ UNCHANGED <<filterVars, serverVars, modalVars>>
  /\ UNCHANGED <<inventario, products, inputValues, pendingChanges, fetcherData>>

\* --------------------------------------------------------- server actions
\* action, one turn of its for loop: the upsert of the next pair either is
\* applied or returns an error, which the loop does not look at.
ActionUpsert ==
  /\ requests # <<>>
  /\ Head(requests) # <<>>
  /\ LET change == Head(Head(requests)) IN
       \E ok \in BOOLEAN :
         /\ inventario' = IF ok THEN Upsert(inventario, change) ELSE inventario
         /\ upsertFailed' = (upsertFailed \/ ~ok)
  /\ requests' = <<Tail(Head(requests))>> \o Tail(requests)
  /\ lastEvent' = <<"upsert", 0>>
  /\ UNCHANGED <<filterVars, serverVars, modalVars>>
  /\ UNCHANGED <<products, inputValues, pendingChanges, fetcherState,
                 fetcherData, prevIsSubmitting, load, loaderResp, preCommit,
                 committed>>

\* action returns and the fetcher receives the answer: fetcher.state becomes
\* "loading" with fetcher.data set, the router starts revalidating the loader,
\* and the render runs the commit-success effect against the products of
\* that render (the revalidation has not landed yet).
ActionResponseTracking(track) ==
  /\ requests # <<>>
  /\ Head(requests) = <<>>
  /\ requests' = Tail(requests)
  /\ fetcherState' = "loading"
  /\ fetcherData' = ActionResult(upsertFailed)
  /\ IF SuccessEffectFires(prevIsSubmitting, FALSE, fetcherData')
       THEN /\ inputValues' = InitialValues(products)
            /\ pendingChanges' = EmptyMap
       ELSE UNCHANGED <<inputValues, pendingChanges>>
  /\ prevIsSubmitting' = FALSE
  /\ load' = "requested"
  /\ loaderResp' = products
  /\ preCommit' = NoSnapshot
  /\ committed' = IF track /\ fetcherData' = "success"
                    THEN DOMAIN preCommit.pending ELSE {}
  /\ lastEvent' = <<"actionResponse", 0>>
  /\ UNCHANGED <<filterVars, serverVars, modalVars>>
  /\ UNCHANGED <<inventario, products, upsertFailed>>

ActionResponse == ActionResponseTracking(FALSE)

\* the same step, recording the ids of the confirmed batch
ActionResponseTracked == ActionResponseTracking(TRUE)

\* loader, on the server: reads products and inventario and joins them
LoaderRun ==
  /\ load = "requested"
  /\ loaderResp' = LoaderResult(inventario)
  /\ load' = "responded"
  /\ lastEvent' = <<"loaderRun", 0>>
  /\ UNCHANGED <<filterVars, serverVars, modalVars>>
  /\ UNCHANGED <<inventario, products, inputValues, pendingChanges,
                 fetcherState, fetcherData, prevIsSubmitting, requests,
                 upsertFailed, preCommit, committed>>

\* the loader data lands: useLoaderData() yields the new products; a fetcher
\* in "loading" becomes "idle" in the same router update.  The render runs
\* the seeding effect ([products]), the commit-success effect (which only
\* records prevIsSubmitting) and the revalidate-on-success effect, whose
\* revalidator.revalidate() starts the next loader run.
LoaderLand ==
  /\ load = "responded"
  /\ products' = loaderResp
  /\ fetcherState' = IF fetcherState = "loading" THEN "idle" ELSE fetcherState
  /\ IF SeedGuard(pendingChanges)
       THEN /\ inputValues' = InitialValues(products')
            /\ pendingChanges' = EmptyMap
       ELSE UNCHANGED <<inputValues, pendingChanges>>
  /\ prevIsSubmitting' = (fetcherState' = "submitting")
  /\ load' = IF RevalidateEffectFires(fetcherState', fetcherData)
               THEN "requested" ELSE "none"
  /\ loaderResp' = products'
  /\ committed' = {}
  /\ lastEvent' = <<"loaderLand", 0>>
  /\ UNCHANGED <<filterVars, serverVars, modalVars>>
  /\ UNCHANGED <<inventario, fetcherData, requests, upsertFailed, preCommit>>

Next ==
  \/ \E productId \in Products, newValue \in Quantities :
       SetValue(productId, newValue)
  \/ Cancelar
  \/ HandleSaveAll
  \/ ActionUpsert
  \/ ActionResponse
  \/ LoaderRun
  \/ LoaderLand

Spec == Init /\ [][Next]_vars

\* the server answers and the router delivers: an upsert that was started
\* returns, the action returns, a loader that was requested runs and its data
\* lands
SpecFair ==
  /\ Spec
  /\ WF_vars(ActionUpsert)
  /\ WF_vars(ActionResponse)
  /\ WF_vars(LoaderRun)
  /\ WF_vars(LoaderLand)

\* the same page, with the confirmed batch recorded in committed
NextTracked ==
  \/ \E productId \in Products, newValue \in Quantities :
       SetValue(productId, newValue)
  \/ Cancelar
  \/ HandleSaveAll
  \/ ActionUpsert
  \/ ActionResponseTracked
  \/ LoaderRun
  \/ LoaderLand

SpecTracked == Init /\ [][NextTracked]_vars

\* the same page, with every integer the input can deliver typed
NextTyped ==
  \/ \E productId \in Products, newValue \in InputValues :
       SetValue(productId, newValue)
  \/ Cancelar
  \/ HandleSaveAll
  \/ ActionUpsert
  \/ ActionResponse
  \/ LoaderRun
  \/ LoaderLand

SpecTyped == Init /\ [][NextTyped]_vars

\* --------------------------------------------------------- filter actions
\* history: where a change of the search input to v leaves the excursion
NextExcursion(v) ==
  IF excursion = "away" /\ v = GetParam(searchParams, "search") THEN "back"
  ELSE IF Settled \/ excursion = "away" THEN "away"
  ELSE "none"

\* search input onChange -> setSearchValue(e.target.value); the render runs
\* the useDebounce effect: cleanup of the previous timeout, a new timeout
TypeSearch(v) ==
  /\ v # searchValue
  /\ searchValue' = v
  /\ searchTimers' = Cleanup(searchTimers) \cup {TimerFor(v)}
  /\ stableSearch' = 0
  /\ navSinceInput' = FALSE
  /\ excursion' = NextExcursion(v)
  /\ preClear' = NoClear
  /\ lastEvent' = <<"typeSearch", 0>>
  /\ UNCHANGED <<colorValue, debouncedSearch, debouncedColor, colorTimers,
                 searchParams, navPending, stableColor>>
  /\ UNCHANGED <<inventoryVars, serverVars, modalVars>>

\* color select onChange -> setColorValue(e.target.value), likewise
SelectColor(v) ==
  /\ v # colorValue
  /\ colorValue' = v
  /\ colorTimers' = Cleanup(colorTimers) \cup {TimerFor(v)}
  /\ stableColor' = 0
  /\ navSinceInput' = FALSE
  /\ excursion' = "none"
  /\ preClear' = NoClear
  /\ lastEvent' = <<"selectColor", 0>>
  /\ UNCHANGED <<searchValue, debouncedSearch, debouncedColor, searchTimers,
                 searchParams, navPending, stableSearch>>
  /\ UNCHANGED <<inventoryVars, serverVars, modalVars>>

\* TickMs of time pass; a timeout that has expired runs before more time passes
Tick ==
  /\ searchTimers \cup colorTimers # {}
  /\ Expired(searchTimers) = {}
  /\ Expired(colorTimers) = {}
  /\ searchTimers' = Elapse(searchTimers)
  /\ colorTimers' = Elapse(colorTimers)
  /\ stableSearch' = Stable(stableSearch)
  /\ stableColor' = Stable(stableColor)
  /\ lastEvent' = <<"tick", 0>>
  /\ UNCHANGED <<searchValue, colorValue, debouncedSearch, debouncedColor,
                 searchParams, navPending, navSinceInput, excursion, preClear>>
  /\ UNCHANGED <<inventoryVars, serverVars, modalVars>>

\* a timeout of useDebounce(searchValue) runs: setDebouncedValue(value); if
\* the debounced value changed, the render runs the filter-to-URL effect
SearchTimerFire ==
  \E t \in Expired(searchTimers) :
    LET ran == t.val # debouncedSearch
        navigated == ran /\ ShouldNavigate(searchParams, t.val, debouncedColor)
    IN /\ searchTimers' = searchTimers \ {t}
       /\ debouncedSearch' = t.val
       /\ navPending' = IF ran
                          THEN SyncEffect(searchParams, t.val, debouncedColor, navPending)
                          ELSE navPending
       /\ navSinceInput' = (navSinceInput \/ navigated)
       /\ excursion' = IF excursion = "away" THEN "none" ELSE excursion
       /\ lastEvent' = <<"searchTimerFire", IF navigated THEN 1 ELSE 0>>
       /\ UNCHANGED <<searchValue, colorValue, debouncedColor, colorTimers,
                      searchParams, stableSearch, stableColor, preClear>>
       /\ UNCHANGED <<inventoryVars, serverVars, modalVars>>

\* a timeout of useDebounce(colorValue) runs, likewise
ColorTimerFire ==
  \E t \in Expired(colorTimers) :
    LET ran == t.val # debouncedColor
        navigated == ran /\ ShouldNavigate(searchParams, debouncedSearch, t.val)
    IN /\ colorTimers' = colorTimers \ {t}
       /\ debouncedColor' = t.val
       /\ navPending' = IF ran
                          THEN SyncEffect(searchParams, debouncedSearch, t.val, navPending)
                          ELSE navPending
       /\ navSinceInput' = (navSinceInput \/ navigated)
       /\ excursion' = "none"
       /\ lastEvent' = <<"colorTimerFire", IF navigated THEN 1 ELSE 0>>
       /\ UNCHANGED <<searchValue, colorValue, debouncedSearch, searchTimers,
                      searchParams, stableSearch, stableColor, preClear>>
       /\ UNCHANGED <<inventoryVars, serverVars, modalVars>>

\* the navigation in flight completes: the location takes the target's
\* parameters; if they changed, useSearchParams() yields a new object and
\* the render runs the filter-to-URL effect
NavComplete ==
  /\ navPending.active
  /\ searchParams' = navPending.target
  /\ LET ran == searchParams' # searchParams
         navigated == ran /\ ShouldNavigate(searchParams', debouncedSearch, debouncedColor)
     IN /\ navPending' = IF ran
                           THEN SyncEffect(searchParams', debouncedSearch,
                                           debouncedColor, NoNavigation)
                           ELSE NoNavigation
        /\ navSinceInput' = (navSinceInput \/ navigated)
        /\ lastEvent' = <<"navComplete", IF navigated THEN 1 ELSE 0>>
  /\ UNCHANGED <<searchValue, colorValue, debouncedSearch, debouncedColor,
                 searchTimers, colorTimers, stableSearch, stableColor,
                 excursion, preClear>>
  /\ UNCHANGED <<inventoryVars, serverVars, modalVars>>

\* Limpiar Filtros button -> handleClearFilters
ClearFilters ==
  /\ searchValue' = ""
  /\ colorValue' = ""
  /\ searchTimers' = IF searchValue # ""
                       THEN Cleanup(searchTimers) \cup {TimerFor("")}
                       ELSE searchTimers
  /\ colorTimers' = IF colorValue # ""
                      THEN Cleanup(colorTimers) \cup {TimerFor("")}
                      ELSE colorTimers
  /\ stableSearch' = IF searchValue # "" THEN 0 ELSE stableSearch
  /\ stableColor' = IF colorValue # "" THEN 0 ELSE stableColor
  /\ navPending' = [active |-> TRUE, target |-> EmptyParams]
  /\ navSinceInput' = FALSE
  /\ excursion' = "none"
  /\ preClear' = [active |-> TRUE, search |-> searchValue, color |-> colorValue]
  /\ lastEvent' = <<"clearFilters", 0>>
  /\ UNCHANGED <<debouncedSearch, debouncedColor, searchParams>>
  /\ UNCHANGED <<inventoryVars, serverVars, modalVars>>

\* the page opened on any location; the inventory side is left alone
InitFilter ==
  /\ InventoryInit
  /\ inventario = EmptyMap
  /\ \E params \in ParamStates : FilterMounted(params)
  /\ ServerIdle
  /\ ModalClosed

NextFilter ==
  \/ \E v \in SearchTexts : TypeSearch(v)
  \/ \E v \in ColorTexts : SelectColor(v)
  \/ Tick
  \/ SearchTimerFire
  \/ ColorTimerFire
  \/ NavComplete
  \/ ClearFilters

SpecFilter == InitFilter /\ [][NextFilter]_vars

\* time passes and the event loop runs expired timeouts
SpecFilterFair ==
  /\ SpecFilter
  /\ WF_vars(Tick)
  /\ WF_vars(SearchTimerFire)
  /\ WF_vars(ColorTimerFire)

\* ... and a navigation that was issued completes
SpecFilterLive == SpecFilterFair /\ WF_vars(NavComplete)

\* -------------------------------------------------------- request handlers
\* what every handler leaves alone: the page, the filters, the modal and the
\* request itself
HandlerFrame ==
  /\ UNCHANGED <<products, inputValues, pendingChanges, fetcherState,
                 fetcherData, prevIsSubmitting, requests, upsertFailed, load,
                 loaderResp, preCommit, committed>>
  /\ UNCHANGED <<filterVars, modalVars, request>>

\* loader of /inventario
InventarioLoader ==
  /\ response = NoResponse
  /\ request.route = "inventario.loader"
  /\ IF ~GetUser(request)
       THEN /\ response' = Redirect("/login", FALSE)
            /\ effects' = <<>>
       ELSE \E productsError \in BOOLEAN, inventarioError \in BOOLEAN :
              IF productsError
                THEN /\ effects' = <<"select products">>
                     /\ response' = Json(200, "error", EmptyMap)
              ELSE IF inventarioError
                THEN /\ effects' = <<"select products", "select inventario">>
                     /\ response' = Json(200, "error", EmptyMap)
              ELSE /\ effects' = <<"select products", "select inventario",
                                   "select products">>
                   /\ response' =
                        Json(200, "data",
                             TransformedProducts(request.rows, inventario))
  /\ lastEvent' = <<"inventario.loader", 0>>
  /\ UNCHANGED inventario
  /\ HandlerFrame

\* action of /inventario
InventarioAction ==
  /\ response = NoResponse
  /\ request.route = "inventario.action"
  /\ IF ~GetUser(request)
       THEN /\ response' = Redirect("/login", FALSE)
            /\ effects' = <<>>
            /\ UNCHANGED inventario
       ELSE LET parsed == ParseChanges(request) IN
            IF parsed.throws
              THEN /\ response' = Thrown
                   /\ effects' = <<>>
                   /\ UNCHANGED inventario
              ELSE \E oks \in [1..Len(parsed.changes) -> BOOLEAN] :
                     /\ inventario' = ApplyFrom(inventario, parsed.changes, oks, 1)
                     /\ effects' = [k \in 1..Len(parsed.changes) |->
                                      IF oks[k] THEN "upsert ok"
                                                ELSE "upsert error"]
                     /\ response' =
                          Json(200, ActionResult(\E k \in DOMAIN oks : ~oks[k]),
                               EmptyMap)
  /\ lastEvent' = <<"inventario.action", 0>>
  /\ HandlerFrame

\* loaders of /dashboard, /productos and /catalogo
PageLoader ==
  /\ response = NoResponse
  /\ request.route \in PageRoutes
  /\ IF ~GetUser(request)
       THEN /\ response' = Redirect("/login", FALSE)
            /\ effects' = <<>>
       ELSE /\ response' = Json(200, "data", EmptyMap)
            /\ effects' = PageReads(request.route)
  /\ lastEvent' = <<"page.loader", 0>>
  /\ UNCHANGED inventario
  /\ HandlerFrame

\* action of /login
LoginAction ==
  /\ response = NoResponse
  /\ request.route = "login.action"
  /\ IF MissingCredentials(request)
       THEN /\ response' = Json(400, "error", EmptyMap)
            /\ effects' = <<>>
       ELSE \E signInError \in BOOLEAN :
              IF signInError
                THEN /\ response' = Json(401, "error", EmptyMap)
                     /\ effects' = <<"signInWithPassword error">>
                ELSE /\ response' = Redirect("/dashboard", TRUE)
                     /\ effects' = <<"signInWithPassword ok", "commitSession">>
  /\ lastEvent' = <<"login.action", 0>>
  /\ UNCHANGED inventario
  /\ HandlerFrame

\* one request, with any session and any form, against any table
InitServer ==
  /\ \E table \in ServerTables : InventoryMounted(table)
  /\ FilterMounted(EmptyParams)
  /\ ModalClosed
  /\ request \in Requests
  /\ response = NoResponse
  /\ effects = <<>>

NextServer ==
  \/ InventarioLoader
  \/ InventarioAction
  \/ PageLoader
  \/ LoginAction

SpecServer == InitServer /\ [][NextServer]_vars

\* ----------------------------------------------------------- modal actions
\* what the modal leaves alone
ModalFrame == UNCHANGED <<inventoryVars, filterVars, serverVars>>

\* the parent renders the modal with isOpen = true
OpenModal ==
  /\ ~modal.isOpen
  /\ modal' = [modal EXCEPT !.isOpen = TRUE]
  /\ lastEvent' = <<"openModal", 0>>
  /\ ModalFrame

\* onClose (backdrop, X, Cancelar): the parent renders isOpen = false and
\* the reset-on-close effect runs
CloseModal ==
  /\ modal.isOpen
  /\ modal' = ResetOnClose([modal EXCEPT !.isOpen = FALSE])
  /\ lastEvent' = <<"closeModal", 0>>
  /\ ModalFrame

\* file input onChange -> handleFileChange; files is e.target.files
HandleFileChange(files) ==
  /\ ~modal.loading
  /\ IF files = <<>>
       THEN UNCHANGED modal
     ELSE IF ~IsImage(files[1])
       THEN modal' = [modal EXCEPT
                        !.error = "Solo se permiten archivos de imagen.",
                        !.selectedFile = <<>>,
                        !.previewUrl = <<>>]
     ELSE modal' = [modal EXCEPT !.error = "null",
                                 !.selectedFile = files,
                                 !.previewUrl = files]
  /\ lastEvent' = <<"handleFileChange", Len(files)>>
  /\ ModalFrame

\* Guardar button -> handleSave; the parent's onSave may start the upload
\* (loading = true), and the render then records wasLoading
HandleSave ==
  /\ ~modal.loading
  /\ IF modal.selectedFile = <<>>
       THEN /\ modal' = [modal EXCEPT !.error = "Selecciona una imagen valida."]
            /\ lastEvent' = <<"handleSave", 0>>
       ELSE /\ \E starts \in BOOLEAN :
                 modal' = [modal EXCEPT
                             !.error = "null",
                             !.onSaveCalls = @ \cup {modal.selectedFile[1]},
                             !.loading = starts,
                             !.wasLoading = starts]
            /\ lastEvent' = <<"handleSave", 1>>
  /\ ModalFrame

\* the parent renders loading = false: the close-after-save effect calls
\* onClose and records wasLoading; the reset-on-close effect runs
LoadingDone ==
  /\ modal.loading
  /\ modal' = ResetOnClose([modal EXCEPT !.loading = FALSE,
                                         !.wasLoading = FALSE,
                                         !.isOpen = FALSE])
  /\ lastEvent' = <<"loadingDone", 0>>
  /\ ModalFrame

InitModal ==
  /\ InventoryInit
  /\ inventario = EmptyMap
  /\ FilterMounted(EmptyParams)
  /\ ServerIdle
  /\ ModalClosed

NextModal ==
  \/ OpenModal
  \/ CloseModal
  \/ \E files \in Optional(MimeTypes) : HandleFileChange(files)
  \/ HandleSave
  \/ LoadingDone

SpecModal == InitModal /\ [][NextModal]_vars

\* ================================================================ claims
\* predicates on the step just taken (every action records its name)
SetValueStep == lastEvent'[1] = "setValue"
HandleSaveAllStep == lastEvent'[1] = "handleSaveAll"
ActionResponseStep == lastEvent'[1] = "actionResponse"
LoaderLandStep == lastEvent'[1] = "loaderLand"

\* pending holds exactly the ids whose displayed value differs from the
\* baseline, each with the displayed value
DiffCorrect ==
  \A p \in Products :
    /\ (p \in DOMAIN pendingChanges) <=> (inputValues[p] # products[p])
    /\ (p \in DOMAIN pendingChanges) => (pendingChanges[p] = inputValues[p])

\* C1 - Diff correctness: the freshly seeded page satisfies DiffCorrect and
\* every setValue call (handleInputChange; it leaves the baseline alone)
\* takes a state satisfying DiffCorrect to one satisfying it, so after any
\* finite sequence of setValue calls from the seeded page pending is exactly
\* the set of ids whose displayed value differs from the baseline, with
\* pending[id] = displayed[id].
C1_DiffCorrectness ==
  /\ Init => DiffCorrect
  /\ [][(SetValueStep /\ DiffCorrect) => (products' = products /\ DiffCorrect')]_vars

\* C1 witness: after a setValue one product is pending with a value that
\* differs from its baseline and the other product is displayed at baseline.
C1_Witness ==
  /\ lastEvent[1] = "setValue"
  /\ DiffCorrect
  /\ \E p \in Products, q \in Products :
       /\ p \in DOMAIN pendingChanges
       /\ q \notin DOMAIN pendingChanges

\* C2 - PendingChange invariant over all operations: in every reachable
\* state pending has an entry for product P if and only if the value
\* displayed for P differs from the current baseline for P.
C2_PendingIffDiffers ==
  \A p \in Products :
    (p \in DOMAIN pendingChanges) <=> (inputValues[p] # products[p])

\* C3 - Idempotent revert: when setValue(id, X) with X # baseline[id] is
\* followed by setValue(id, baseline[id]), pending has no key for id
\* afterwards and every other pending entry is unchanged.
C3_IdempotentRevert ==
  [][\A id \in Products :
       ( /\ lastEvent = <<"setValue", id>>
         /\ id \in DOMAIN pendingChanges
         /\ pendingChanges[id] # products[id]
         /\ lastEvent' = <<"setValue", id>>
         /\ inputValues'[id] = products[id] )
       => /\ id \notin DOMAIN pendingChanges'
          /\ DOMAIN pendingChanges' = (DOMAIN pendingChanges) \ {id}
          /\ \A q \in DOMAIN pendingChanges' :
               pendingChanges'[q] = pendingChanges[q]]_vars

\* C3 witness: a revert has just happened (the last call set id back to its
\* baseline and id is not pending) while another product is still pending.
C3_Witness ==
  \E id \in Products, q \in Products :
    /\ lastEvent = <<"setValue", id>>
    /\ inputValues[id] = products[id]
    /\ id \notin DOMAIN pendingChanges
    /\ q # id
    /\ q \in DOMAIN pendingChanges

\* C4 - Commit clears ledger: when the success answer of a batch commit
\* (every upsert of which succeeded) is applied, pending is empty, displayed
\* equals baseline for every product,
\* and baseline holds the just-committed value for every committed id and
\* the previous value for every other id.
C4_CommitClearsLedger ==
  [][(ActionResponseStep /\ ~upsertFailed /\ fetcherData' = "success") =>
       /\ pendingChanges' = EmptyMap
       /\ \A p \in Products : inputValues'[p] = products'[p]
       /\ \A p \in Products :
            products'[p] = IF p \in DOMAIN preCommit.pending
                             THEN preCommit.pending[p]
                             ELSE products[p]]_vars

\* C5 - Failed commit preserves edits: if an upsert of the batch failed,
\* then when the commit attempt completes pending and displayed equal their
\* values immediately before handleSaveAll.
C5_FailedCommitPreservesEdits ==
  [][(ActionResponseStep /\ upsertFailed) =>
       /\ pendingChanges' = preCommit.pending
       /\ inputValues' = preCommit.displayed]_vars

\* C6 - Persistence errors are surfaced: if any upsert of the request
\* returned an error, the answer the client holds is not {success: true}.
C6_ErrorsSurfaced ==
  (lastEvent[1] = "actionResponse" /\ upsertFailed) => fetcherData # "success"

\* C7 - Refetch non-clobber: when a fresh baseline lands while pending is
\* non-empty, pending is unchanged, the displayed value of every pending id
\* is unchanged, and the baseline takes the fresh values.
C7_RefetchNonClobber ==
  [][(LoaderLandStep /\ DOMAIN pendingChanges # {}) =>
       /\ pendingChanges' = pendingChanges
       /\ \A p \in DOMAIN pendingChanges : inputValues'[p] = inputValues[p]
       /\ products' = loaderResp]_vars

\* C7 witness: a baseline has just landed under a pending entry, and it
\* changed that product's baseline (the entry now equals the baseline, which
\* setValue never allows).
C7_Witness ==
  /\ lastEvent[1] = "loaderLand"
  /\ \E p \in DOMAIN pendingChanges :
       /\ pendingChanges[p] = products[p]
       /\ inputValues[p] = pendingChanges[p]

\* C8 - Re-seeding: when a fresh baseline lands while pending is empty,
\* displayed[id] equals the fresh quantity for every product and pending
\* stays empty.
C8_Reseeding ==
  [][(LoaderLandStep /\ DOMAIN pendingChanges = {}) =>
       /\ \A p \in Products : inputValues'[p] = loaderResp[p]
       /\ products' = loaderResp
       /\ pendingChanges' = EmptyMap]_vars

\* C8 witness: a baseline that carries a committed quantity has just landed
\* on an empty ledger and is displayed.
C8_Witness ==
  /\ lastEvent[1] = "loaderLand"
  /\ pendingChanges = EmptyMap
  /\ fetcherData = "success"
  /\ inputValues = products
  /\ \E p \in Products : products[p] # 0 /\ p \in DOMAIN inventario

\* C9 - Batch serialization: one handleSaveAll with n >= 1 pending entries
\* issues exactly one write request; it carries exactly n pairs, one per
\* pending id with that id's pending value, in ledger iteration order
\* (ascending id, the order of Object.entries).
C9_BatchSerialization ==
  [][HandleSaveAllStep =>
       /\ Len(requests') = Len(requests) + 1
       /\ \A i \in 1..Len(requests) : requests'[i] = requests[i]
       /\ LET r == requests'[Len(requests')] IN
            /\ Len(r) = Cardinality(DOMAIN pendingChanges)
            /\ Len(r) >= 1
            /\ \A i \in 1..Len(r) :
                 /\ r[i].productId \in DOMAIN pendingChanges
                 /\ r[i].cantidad = pendingChanges[r[i].productId]
            /\ \A i \in 1..Len(r), j \in 1..Len(r) :
                 i < j => r[i].productId < r[j].productId]_vars

\* C9 witness: a commit of two pending entries has just been submitted as
\* one request of two pairs.
C9_Witness ==
  /\ lastEvent[1] = "handleSaveAll"
  /\ Len(requests) = 1
  /\ Len(requests[1]) = 2
  /\ Cardinality(DOMAIN pendingChanges) = 2

\* C10 - At most one batch commit is outstanding: at most one write request
\* is in flight, and while one is (submitted, answer not yet applied) the
\* commit affordance cannot start another.
C10_OneOutstandingCommit ==
  /\ Len(requests) <= 1
  /\ requests # <<>> => ~ENABLED HandleSaveAll

\* C10 witness: the request has been served but not answered, the ledger is
\* still non-empty (the button is shown) and the fetcher is submitting.
C10_Witness ==
  /\ requests = << <<>> >>
  /\ hasPendingChanges
  /\ fetcherState = "submitting"

\* C11 (as amended) - while a batch submission is outstanding (submitted,
\* answer not yet applied) the quantity inputs are disabled like the commit
\* affordance: no setValue of any id to any value can happen; with no
\* submission outstanding the inputs take edits, also while the revalidation
\* that follows a commit is still in flight.
C11_InputsDisabledWhileSubmitting ==
  (ENABLED (\E p \in Products, v \in Quantities : SetValue(p, v)))
    <=> (requests = <<>>)

\* C11 witness: a submission is outstanding and edits are pending.
C11_Witness ==
  /\ requests # <<>>
  /\ fetcherState = "submitting"
  /\ hasPendingChanges

\* C11 (as claimed) - while a batch submission is outstanding setValue is
\* still enabled.
C11_Original ==
  requests # <<>> => \A p \in Products, v \in Quantities : ENABLED SetValue(p, v)

\* C12 - No just-reverted value is shown: when the success of a commit
\* (every upsert of which succeeded) is applied, no committed id whose
\* committed value differs from the pre-commit baseline is displayed at the
\* pre-commit baseline value.
C12_NoRevertedValueShown ==
  [][(ActionResponseStep /\ ~upsertFailed /\ fetcherData' = "success") =>
       \A p \in DOMAIN preCommit.pending :
         preCommit.pending[p] # products[p] => inputValues'[p] # products[p]]_vars

\* C20 - Discard resets both maps: right after Cancelar, pending is empty
\* and displayed[id] equals baseline[id] for every product.
C20_DiscardResetsBoth ==
  lastEvent[1] = "cancelar" =>
    /\ pendingChanges = EmptyMap
    /\ \A p \in Products : inputValues[p] = products[p]

\* C13 - Last server truth wins after a commit: when the refetch that
\* follows a commit confirmation lands, displayed[id] and baseline[id] both
\* equal the refetched quantity for every id of the committed batch,
\* whatever the user did since the confirmation.  Stated here for the
\* commits whose upserts all succeeded and for the committed ids that carry
\* no pending edit when the refetch lands.
C13_LastServerTruthWins ==
  [][(LoaderLandStep /\ fetcherState = "loading" /\ ~upsertFailed) =>
       \A p \in committed \ DOMAIN pendingChanges :
         /\ products'[p] = loaderResp[p]
         /\ inputValues'[p] = loaderResp[p]]_vars

\* C14 - Quantity is never negative: after any sequence of setValue edits
\* (any integer the number input can deliver) and batch commits, every
\* inventory record stored by the write action has quantity >= 0.
C14_QuantityNonNegative ==
  \A p \in DOMAIN inventario : inventario[p] >= 0

\* the step just taken was a run of the filter-to-URL effect that navigated
SyncNavigated ==
  /\ lastEvent[1] \in {"searchTimerFire", "colorTimerFire", "navComplete"}
  /\ lastEvent[2] = 1

\* C15 - Debounce lag: a debounced value changes only to the value that has
\* been the input for the whole delay (a superseded value is never
\* propagated), and an input value that stays is eventually the debounced
\* value.
C15_DebounceLag ==
  /\ [][/\ debouncedSearch' # debouncedSearch =>
             (debouncedSearch' = searchValue /\ stableSearch >= DebounceDelay)
        /\ debouncedColor' # debouncedColor =>
             (debouncedColor' = colorValue /\ stableColor >= DebounceDelay)]_vars
  /\ \A v \in SearchTexts :
       (searchValue = v) ~> (debouncedSearch = v \/ searchValue # v)
  /\ \A v \in ColorTexts :
       (colorValue = v) ~> (debouncedColor = v \/ colorValue # v)

\* C15 witness: the search timeout has just run and changed the debounced
\* value to the input (the effect navigated because it now differs from the
\* URL), the input having been stable for the delay.
C15_Witness ==
  /\ lastEvent = <<"searchTimerFire", 1>>
  /\ debouncedSearch = searchValue
  /\ debouncedSearch # GetParam(searchParams, "search")
  /\ stableSearch >= DebounceDelay

\* C16 - Debounce cancellation: at most one timeout per debounced field is
\* pending at any time and it carries the field's current input, so no
\* cancelled timeout is left to run a late update.
C16_DebounceCancellation ==
  /\ Cardinality(searchTimers) <= 1
  /\ Cardinality(colorTimers) <= 1
  /\ \A t \in searchTimers : t.val = searchValue
  /\ \A t \in colorTimers : t.val = colorValue

\* C16 witness: the search input was changed twice within the delay (away
\* and back); the only timeout pending is the one scheduled last.
C16_Witness ==
  /\ excursion = "back"
  /\ lastEvent[1] = "typeSearch"
  /\ searchTimers = {TimerFor(searchValue)}

\* C17 - Net-zero filter change is suppressed: when the search input of a
\* settled page is changed away from the URL's value and back to it before
\* the debounce timeout runs (color untouched), the synchronizer issues no
\* navigation, also after the timeout has run.
C17_NetZeroSuppressed ==
  excursion = "back" =>
    /\ ~navSinceInput
    /\ ~navPending.active
    /\ debouncedSearch = GetParam(searchParams, "search")

\* C17 witness: after the change away and back the timeout has run, and
\* nothing was navigated.
C17_Witness ==
  /\ excursion = "back"
  /\ lastEvent[1] = "searchTimerFire"
  /\ searchTimers = {}
  /\ ~navSinceInput

\* C18 - Filter-URL synchronizer guard: the synchronizer navigates only when
\* the debounced search differs from the URL's search parameter or the
\* debounced color from the URL's color parameter (absent = empty); no
\* navigation is issued on initial load; a navigation target never holds a
\* search or color parameter with an empty value.
C18_SynchronizerGuard ==
  /\ lastEvent[1] = "mount" => ~navPending.active
  /\ navPending.active =>
       \A k \in DOMAIN navPending.target : navPending.target[k] # ""
  /\ SyncNavigated =>
       /\ navPending.active
       /\ \/ debouncedSearch # GetParam(searchParams, "search")
          \/ debouncedColor # GetParam(searchParams, "color")

\* C18 witness: the synchronizer has just navigated because the debounced
\* search became empty while the URL holds a search value; the target omits
\* the parameter.
C18_Witness ==
  /\ SyncNavigated
  /\ debouncedSearch = ""
  /\ GetParam(searchParams, "search") # ""
  /\ "search" \notin DOMAIN navPending.target

\* C19 - Clear filters: after the clear-filters action, and until the user
\* changes a filter input again, no navigation is issued to a URL carrying
\* the pre-clear search or color value.
C19_ClearFilters ==
  (preClear.active /\ navPending.active) =>
    /\ preClear.search # "" =>
         GetParam(navPending.target, "search") # preClear.search
    /\ preClear.color # "" =>
         GetParam(navPending.target, "color") # preClear.color

\* C21 - Ledger/commit state machine: handleSaveAll starts only in Dirty
\* (pending non-empty, no submission outstanding); the save panel is visible
\* exactly when pending is non-empty; Committing is left only when the
\* action's answer is applied, to Clean when every upsert succeeded and to
\* Dirty with the pending entries of the submission when one failed.
C21_LedgerStateMachine ==
  [][/\ HandleSaveAllStep => (DOMAIN pendingChanges # {} /\ ~isSubmitting)
     /\ SavePanelVisible <=> (DOMAIN pendingChanges # {})
     /\ (isSubmitting /\ fetcherState' # "submitting") => ActionResponseStep
     /\ ActionResponseStep =>
          IF upsertFailed
            THEN /\ pendingChanges' = preCommit.pending
                 /\ DOMAIN pendingChanges' # {}
            ELSE pendingChanges' = EmptyMap]_vars

\* C26 - No lost edit on commit success: whenever applying the answer of a
\* commit clears pending, every entry it clears was in the submitted batch
\* with the same value (pending did not change between handleSaveAll and
\* the answer), so no edit made after the submission is dropped.
C26_NoLostEdit ==
  [][(ActionResponseStep /\ pendingChanges' = EmptyMap) =>
       \A p \in DOMAIN pendingChanges :
         /\ p \in DOMAIN preCommit.pending
         /\ preCommit.pending[p] = pendingChanges[p]]_vars

\* C26 witness: the answer of a commit has just been applied and has cleared
\* pending; the table holds a committed value the baseline does not have yet.
C26_Witness ==
  /\ lastEvent[1] = "actionResponse"
  /\ fetcherData = "success"
  /\ pendingChanges = EmptyMap
  /\ fetcherState = "loading"
  /\ \E p \in DOMAIN inventario : inventario[p] # products[p]

\* a step taken by the user: an edit, Cancelar or Guardar Cambios
UserStep == lastEvent'[1] \in {"setValue", "cancelar", "handleSaveAll"}

\* C27 - Quiescence after commit: unless the user keeps acting, the page
\* eventually stays in a state with no submission and no refetch
\* outstanding (the revalidate-on-success effect starts only finitely many
\* revalidations).
C27_Quiescence ==
  ([]<><<UserStep>>_vars) \/ <>[](requests = <<>> /\ load = "none")

\* a change of a filter input by the user: typing, selecting, Limpiar Filtros
FilterInputStep == lastEvent'[1] \in {"typeSearch", "selectColor", "clearFilters"}

\* the URL encodes the inputs (an absent parameter counting as empty) and no
\* navigation is in flight
UrlMatchesInputs ==
  /\ GetParam(searchParams, "search") = searchValue
  /\ GetParam(searchParams, "color") = colorValue
  /\ ~navPending.active

\* C28 - Filter synchronization converges: unless the filter inputs keep
\* changing, eventually the URL's search and color parameters equal the
\* inputs for good and no navigation is in flight any more.
C28_FilterSyncConverges ==
  ([]<><<FilterInputStep>>_vars) \/ <>[]UrlMatchesInputs

\* the routes whose loader or action is for signed-in users
GuardedRoutes == {"inventario.loader", "inventario.action"} \cup PageRoutes

\* the request has been handled
Handled == response # NoResponse

\* C22 - Authenticated-only operations: a request to the inventory,
\* dashboard, product or catalog loader or to the inventory write action
\* whose session does not hold both a user id and user data is answered
\* with a redirect to /login; no database call is made for it and the
\* table is left as it was.
C22_AuthenticatedOnly ==
  [][(request.route \in GuardedRoutes /\ ~(request.userId /\ request.userData))
       => /\ response' = Redirect("/login", FALSE)
          /\ effects' = <<>>
          /\ inventario' = inventario]_vars

\* C22 witness: a write request of two pairs whose session holds a user id
\* but no user data has been answered with the redirect.
C22_Witness ==
  /\ request.route = "inventario.action"
  /\ request.userId /\ ~request.userData
  /\ Len(request.changes) = 2
  /\ response = Redirect("/login", FALSE)

\* the write request lacks a required field or carries a quantity that is
\* not an integer
InvalidWrite(req) ==
  \/ /\ req.changesRaw # "json"
     /\ (req.productId = <<>> \/ req.cantidad = <<>>)
  \/ /\ req.changesRaw # "json"
     /\ req.cantidad = <<NotInteger>>
  \/ /\ req.changesRaw = "json"
     /\ \E k \in DOMAIN req.changes : req.changes[k].cantidad = NotInteger

\* C23 - Validation before write: a signed-in write request that lacks a
\* required field or carries a quantity that is not an integer performs no
\* upsert and is not answered with success.
C23_ValidationBeforeWrite ==
  (/\ Handled
   /\ request.route = "inventario.action"
   /\ request.userId /\ request.userData
   /\ InvalidWrite(request))
    => (effects = <<>> /\ response.body # "success")

\* C24 - Loader join: when the loader returns the list (both reads
\* succeeded), it has exactly one row per product the filtered query
\* returned, none for an inventario record without a product, and each row
\* carries the cantidad of the inventario record of the same product id, or
\* 0 when there is no such record (or the record holds no integer).
C24_LoaderJoin ==
  (Handled /\ request.route = "inventario.loader" /\ response.body = "data")
    => /\ DOMAIN response.products = request.rows
       /\ \A p \in request.rows :
            response.products[p] =
              IF p \in DOMAIN inventario /\ inventario[p] # NotInteger
                THEN inventario[p] ELSE 0

\* C24 witness: the loader has returned two rows, one for a product with a
\* positive quantity and one for a product without record, and the table
\* holds a record without product.
C24_Witness ==
  /\ Handled /\ request.route = "inventario.loader" /\ response.body = "data"
  /\ OrphanId \in DOMAIN inventario
  /\ \E p \in request.rows : p \notin DOMAIN inventario
  /\ \E p \in request.rows : p \in DOMAIN inventario /\ inventario[p] > 0

\* C25 - Server-side batch application: the write action upserts the pairs
\* of the request one at a time in request order, each on its product id:
\* the table afterwards is the table before with, in order, each pair either
\* applied or, when its upsert failed, skipped, pairs applied before a
\* failure staying applied; records of products not in the batch are
\* untouched.
C25_BatchApplication ==
  [][(request.route = "inventario.action" /\ request.changesRaw = "json"
      /\ request.userId /\ request.userData)
       => LET c == request.changes
              After(inv, k) ==
                IF effects'[k] = "upsert ok"
                  THEN MapSet(inv, c[k].productId, c[k].cantidad)
                  ELSE inv
          IN /\ Len(effects') = Len(c)
             /\ Len(c) = 0 => inventario' = inventario
             /\ Len(c) = 1 => inventario' = After(inventario, 1)
             /\ Len(c) = 2 => inventario' = After(After(inventario, 1), 2)
             /\ \A id \in ProductIds \ {c[k].productId : k \in DOMAIN c} :
                  /\ (id \in DOMAIN inventario') <=> (id \in DOMAIN inventario)
                  /\ id \in DOMAIN inventario => inventario'[id] = inventario[id]]_vars

\* C25 witness: a request of two pairs on different products has been
\* served; the second upsert failed and the first pair is in the table.
C25_Witness ==
  /\ Handled /\ request.route = "inventario.action"
  /\ effects = <<"upsert ok", "upsert error">>
  /\ request.changes[1].productId # request.changes[2].productId
  /\ request.changes[2].productId \notin DOMAIN inventario
  /\ request.changes[1].productId \in DOMAIN inventario
  /\ inventario[request.changes[1].productId] = request.changes[1].cantidad

\* C30 - Login validation: a login request without email or without
\* password is answered with an error of status 400, without a call to the
\* identity provider and without a session cookie; a session cookie is set
\* only after signInWithPassword has reported success.
C30_LoginValidation ==
  (Handled /\ request.route = "login.action")
    => /\ (request.email \in {"absent", "empty"}
           \/ request.password \in {"absent", "empty"})
            => /\ response = Json(400, "error", EmptyMap)
               /\ effects = <<>>
       /\ (response.setCookie \/ \E k \in DOMAIN effects : effects[k] = "commitSession")
            => effects = <<"signInWithPassword ok", "commitSession">>

\* C30 witness: a login with an email and an empty password has been
\* answered with status 400.
C30_Witness ==
  /\ Handled /\ request.route = "login.action"
  /\ request.email = "text" /\ request.password = "empty"
  /\ response.status = 400

\* the text starts with "image/"
ImageType(type) == Len(type) >= 2 /\ type[1] = "image" /\ type[2] = "/"

\* C29 - Image modal validation: the selected file is always absent or of
\* a MIME type starting with "image/"; onSave has been called with such
\* files only; a save attempt with no selected file sets an error message
\* and does not call onSave.
C29_ModalValidation ==
  /\ [](modal.selectedFile = <<>> \/ ImageType(modal.selectedFile[1]))
  /\ [](\A type \in modal.onSaveCalls : ImageType(type))
  /\ [][(lastEvent'[1] = "handleSave" /\ modal.selectedFile = <<>>)
          => /\ modal'.error # "null"
             /\ modal'.onSaveCalls = modal.onSaveCalls
             /\ lastEvent'[2] = 0]_vars

\* C29 witness: after onSave was called with an image, a file that is not
\* an image was picked and rejected, and the save attempt that followed has
\* set the error message.
C29_Witness ==
  /\ lastEvent = <<"handleSave", 0>>
  /\ modal.selectedFile = <<>>
  /\ modal.error = "Selecciona una imagen valida."
  /\ modal.onSaveCalls # {}
  /\ modal.isOpen

====
